---- MODULE Spec2Model ----
(***************************************************************************)
(* Model of the channel-link relay of src/voicefix/cog.py (VoiceFixCog).   *)
(*                                                                         *)
(* The cog keeps an in-memory link index (channel_links, link_channels),   *)
(* a per-channel webhook cache (hooks) and two FIFO correlation caches     *)
(* (message_cache, wmessages).  Event listeners run as asyncio tasks; a    *)
(* task is suspended at every awaited platform or storage call, and other  *)
(* tasks run meanwhile.  One action of this model is the code between two  *)
(* suspensions of one task.                                                *)
(***************************************************************************)
EXTENDS Integers, Sequences, FiniteSets, TLC

\* ------------------------------------------------------------------ bounds
NChannels == 3      \* channel ids 1..NChannels
NLinks == 2         \* link ids 1..NLinks
MaxMsg == 4         \* message ids 1..MaxMsg exist on the platform at most
MaxPosts == 1       \* user-authored messages
MaxAdmin == 2       \* administrative membership changes
MaxEnv == 2         \* user edits, deletions and reactions
SmallForward == 1   \* maxsize of message_cache where eviction is explored
SmallReverse == 3   \* maxsize of wmessages where eviction is explored

Channels == 1..NChannels
Links == 1..NLinks
Tasks == {1, 2}
Emojis == {1, 2}

\* ------------------------------------------------------------ pure helpers
SetMin(S) == CHOOSE x \in S : \A y \in S : x <= y

\* tuple(s) of a set of ids: a duplicate-free sequence of its members.
RECURSIVE TupleOf(_)
TupleOf(S) == IF S = {} THEN << >>
              ELSE << SetMin(S) >> \o TupleOf(S \ {SetMin(S)})

Range(s) == { s[i] : i \in 1..Len(s) }

\* dict.get(key, default)
Get(d, k, default) == IF k \in DOMAIN d THEN d[k] ELSE default

\* defaultdict(set)[k].add(v)
SetAdd(d, k, v) ==
    [x \in DOMAIN d \cup {k} |-> IF x = k THEN Get(d, k, {}) \cup {v} ELSE d[x]]

EmptyMap == [x \in {} |-> {}]

\* d[k] = v
Put(d, k, v) == [x \in DOMAIN d \cup {k} |-> IF x = k THEN v ELSE d[x]]

\* The loop of reload_links over the fetched records: records is a sequence
\* of <<linkid, channelid>> rows, the result the two defaultdict(set) maps.
RECURSIVE BuildMaps(_, _)
BuildMaps(records, acc) ==
    IF records = << >> THEN acc
    ELSE LET linkid == Head(records)[1]
             channelid == Head(records)[2]
         IN BuildMaps(Tail(records),
                      [cl |-> SetAdd(acc.cl, channelid, linkid),
                       lc |-> SetAdd(acc.lc, linkid, channelid)])

\* {k: tuple(v) for k, v in d.items()}
Tupled(d) == [k \in DOMAIN d |-> TupleOf(d[k])]

\* select_where(): the stored rows, in some order.
RECURSIVE RowsOf(_)
RowsOf(S) == IF S = {} THEN << >>
             ELSE LET r == CHOOSE x \in S : \A y \in S :
                                 x[1] < y[1] \/ (x[1] = y[1] /\ x[2] <= y[2])
                  IN << r >> \o RowsOf(S \ {r})

\* The index that reload_links builds from the stored rows S.
Loaded(S) == BuildMaps(RowsOf(S), [cl |-> EmptyMap, lc |-> EmptyMap])

\* ---------------------------------------------------------- FIFOCache
message_cache_maxsize == 200
wmessages_maxsize == 600

\* A cache is the sequence of its <<key, value>> items in insertion order.
CacheKeys(c) == { c[i][1] : i \in 1..Len(c) }

CacheHas(c, k) == k \in CacheKeys(c)

CacheIdx(c, k) == CHOOSE i \in 1..Len(c) : c[i][1] = k

\* cache.get(k, default)
CacheGet(c, k, default) == IF CacheHas(c, k) THEN c[CacheIdx(c, k)][2] ELSE default

\* A lookup that left the item in the cache.
CacheDrop_keep(c, k) == c

\* A pop that removed the oldest item when the key is not cached.
CacheDrop_oldest(c, k) ==
    IF k \in { c[i][1] : i \in 1..Len(c) } \/ c = << >>
    THEN SelectSeq(c, LAMBDA it : it[1] # k)
    ELSE Tail(c)

\* cache.pop(k, default)
CacheDrop(c, k) == SelectSeq(c, LAMBDA it : it[1] # k)

\* A cache that evicted its newest item when full.
CacheSet_evict_newest(c, k, v, maxsize) ==
    IF CacheHas(c, k) THEN Append(CacheDrop(c, k), << k, v >>)
    ELSE Append(IF Len(c) >= maxsize THEN SubSeq(c, 1, maxsize - 1) ELSE c, << k, v >>)

\* cache[k] = v: a present key is rewritten and moved to the end of the order,
\* a new key first evicts the oldest items while the cache is full.
CacheSet(c, k, v, maxsize) ==
    IF CacheHas(c, k) THEN Append(CacheDrop(c, k), << k, v >>)
    ELSE Append(IF Len(c) >= maxsize THEN SubSeq(c, Len(c) - maxsize + 2, Len(c)) ELSE c,
                << k, v >>)

\* ------------------------------------------------------------------ state
VARIABLES
    storage,        \* durable channel_links table: set of <<linkid, channelid>>
    hookrows,       \* durable channel_webhooks table: channels with a row
    hooks,          \* self.hooks: channels with an initialised webhook
    channel_links,  \* self.channel_links: channelid -> tuple of linkids
    link_channels,  \* self.link_channels: linkid -> tuple of channelids
    message_cache,  \* self.message_cache: origin id -> list of <<channelid, msgid>>
    wmessages,      \* self.wmessages: message id -> origin id
    lock,           \* self.lock: the set of tasks inside `async with self.lock`
    task,           \* the listener tasks: position and locals of each
    rl,             \* the task running reload_links: position and locals
    msgs,           \* the platform's messages, by id
    reacts,         \* the platform's reaction counts: <<msgid, emoji>> -> count
    waiters,        \* self.lock's queue of tasks waiting for it, oldest first
    events,         \* gateway events not yet handed to a listener, oldest first
    budget,         \* how many environment operations happened, per kind
    fin,            \* record of the listener run that ended last
    radds,          \* message id -> add_reaction calls the relay made on it
    applied,        \* rows fetched by the reload_links run that swapped last
    maxsize,        \* the maxsize of the two FIFOCache objects
    lk,             \* the task running fetch_webhook_for for linker_link
    hist            \* what the relay did so far: deletions, pops, evictions

vars == << storage, hookrows, hooks, channel_links, link_channels, message_cache,
           wmessages, lock, waiters, task, rl, msgs, reacts, events, budget, fin,
           radds, applied, maxsize, lk, hist >>

durable == << storage, hookrows >>
index == << channel_links, link_channels >>
caches == << message_cache, wmessages >>
platform == << msgs, reacts >>
ghosts == << fin, radds, applied >>
locking == << lock, waiters >>

IdleTask ==
    [pc |-> "idle", kind |-> "none", m |-> 0, chan |-> 0, content |-> 0, emoji |-> 0,
     linkids |-> << >>, li |-> 0, chans |-> << >>, ci |-> 0, sent |-> << >>,
     cached |-> << >>, i |-> 0, new_sent |-> << >>, exp0 |-> {}, ops |-> << >>]

IdleReload ==
    [pc |-> "idle", records |-> << >>, cl |-> EmptyMap, lc |-> EmptyMap,
     channelids |-> << >>, i |-> 0]

NoRun ==
    [kind |-> "none", status |-> "none", m |-> 0, chan |-> 0, sent |-> << >>,
     exp0 |-> {}, exp1 |-> {}, failed |-> 0, cached |-> << >>, ops |-> << >>,
     fwd |-> << >>, rev |-> {}]

\* linker_link's call of fetch_webhook_for (line 260): position and channel.
IdleLink == [pc |-> "idle", channelid |-> 0]

\* Nothing done yet: no deletion attempted on any message, no forward entry
\* popped by on_message_delete, no forward entry evicted.
NoHist == [dels |-> [x \in {} |-> 0], popped |-> [x \in {} |-> 0], evicted |-> {}]

\* Lines 56-59: the two caches as constructed.
Constructed == [message_cache |-> message_cache_maxsize, wmessages |-> wmessages_maxsize]

Event(kind, m, content, emoji) ==
    [kind |-> kind, m |-> m, content |-> content, emoji |-> emoji]

\* The other member channels of the links of channel c, under index (cl, lc).
Others(cl, lc, c) ==
    { d \in Channels : d # c /\ \E l \in Range(Get(cl, c, << >>)) :
                                    d \in Range(Get(lc, l, << >>)) }

\* The stored memberships at start-up: none, one link of three channels, two
\* links sharing a channel pair, two links sharing one channel.
InitStorages ==
    { {},
      { << 1, 1 >>, << 1, 2 >>, << 1, 3 >> },
      { << 1, 1 >>, << 1, 2 >>, << 2, 1 >>, << 2, 2 >> },
      { << 1, 1 >>, << 1, 2 >>, << 2, 1 >> } }

Init ==
    /\ storage \in InitStorages
    /\ hookrows \in {{}, {1, 2}}
    /\ hooks = {}
    /\ channel_links = EmptyMap
    /\ link_channels = EmptyMap
    /\ message_cache = << >>
    /\ wmessages = << >>
    /\ lock = {}
    /\ task = [t \in Tasks |-> IdleTask]
    /\ rl = IdleReload
    /\ msgs = << >>
    /\ reacts = [x \in {} |-> 0]
    /\ waiters = << >>
    /\ events = << >>
    /\ budget = [posts |-> 0, admin |-> 0, env |-> 0]
    /\ fin = NoRun
    /\ radds = [x \in {} |-> 0]
    /\ applied = {}
    /\ maxsize = Constructed
    /\ lk = IdleLink
    /\ hist = NoHist

\* ------------------------------------------------------------ environment
\* A user posts a message in channel c.
UserPost(c) ==
    /\ budget.posts < MaxPosts
    /\ Len(msgs) < MaxMsg
    /\ msgs' = Append(msgs, [chan |-> c, hook |-> FALSE, live |-> TRUE, content |-> 0,
                             src |-> 0])
    /\ events' = Append(events, Event("message", Len(msgs) + 1, 0, 0))
    /\ budget' = [budget EXCEPT !.posts = @ + 1]
    /\ UNCHANGED << maxsize, lk, hist, durable, hooks, index, caches, locking, task, rl, reacts, ghosts >>

\* The reaction of emoji e on message m: how many users made it, and whether
\* the relay's own user is one of them.
ReactionOf(rs, m, e) == Get(rs, << m, e >>, [n |-> 0, bot |-> FALSE])

\* The author edits the user message m.
UserEdit(m) ==
    /\ budget.env < MaxEnv
    /\ m \in 1..Len(msgs) /\ msgs[m].live /\ ~msgs[m].hook
    /\ msgs' = [msgs EXCEPT ![m].content = @ + 1]
    /\ events' = Append(events, Event("edit", m, msgs[m].content + 1, 0))
    /\ budget' = [budget EXCEPT !.env = @ + 1]
    /\ UNCHANGED << maxsize, lk, hist, durable, hooks, index, caches, locking, task, rl, reacts, ghosts >>

\* Somebody deletes message m, a user message or a mirrored copy.
UserDelete(m) ==
    /\ budget.env < MaxEnv
    /\ m \in 1..Len(msgs) /\ msgs[m].live
    /\ msgs' = [msgs EXCEPT ![m].live = FALSE]
    /\ events' = Append(events, Event("delete", m, 0, 0))
    /\ budget' = [budget EXCEPT !.env = @ + 1]
    /\ UNCHANGED << maxsize, lk, hist, durable, hooks, index, caches, locking, task, rl, reacts, ghosts >>

\* A user reacts with emoji e to message m.
UserReact(m, e) ==
    /\ budget.env < MaxEnv
    /\ m \in 1..Len(msgs) /\ msgs[m].live
    /\ reacts' = Put(reacts, << m, e >>,
                     [ReactionOf(reacts, m, e) EXCEPT !.n = @ + 1])
    /\ events' = Append(events, Event("reaction", m, 0, e))
    /\ budget' = [budget EXCEPT !.env = @ + 1]
    /\ UNCHANGED << maxsize, lk, hist, durable, hooks, index, caches, locking, task, rl, msgs, ghosts >>

\* linker_link inserts a membership row, linker_unlink deletes one.
AdminChange(linkid, channelid) ==
    /\ budget.admin < MaxAdmin
    /\ storage' = IF << linkid, channelid >> \in storage
                  THEN storage \ {<< linkid, channelid >>}
                  ELSE storage \cup {<< linkid, channelid >>}
    /\ budget' = [budget EXCEPT !.admin = @ + 1]
    /\ UNCHANGED << maxsize, lk, hist, hookrows, hooks, index, caches, locking, task, rl, platform, events,
                    ghosts >>

\* ------------------------------------------------------------ reload_links
\* A reload_links that assigned self.channel_links while it built the map
\* would leave that map behind when a later await raises.
reload_links_raise_partial ==
    /\ rl' = [IdleReload EXCEPT !.pc = "failed"]
    /\ channel_links' = Tupled(rl.cl)
    /\ UNCHANGED << maxsize, lk, hist, link_channels, applied >>

\* An exception leaves reload_links: nothing after the raising await runs.
reload_links_raise ==
    /\ rl' = [IdleReload EXCEPT !.pc = "failed"]
    /\ UNCHANGED << maxsize, lk, hist, index, applied >>

\* A reload_links that updated the maps in place would keep the entries of
\* channels and links that are no longer stored.
reload_links_swap_merge(r) ==
    /\ channel_links' = [c \in DOMAIN channel_links \cup DOMAIN r.cl |->
                            IF c \in DOMAIN r.cl THEN TupleOf(r.cl[c]) ELSE channel_links[c]]
    /\ link_channels' = [l \in DOMAIN link_channels \cup DOMAIN r.lc |->
                            IF l \in DOMAIN r.lc THEN TupleOf(r.lc[l]) ELSE link_channels[l]]
    /\ applied' = Range(r.records)
    /\ rl' = [IdleReload EXCEPT !.pc = "loaded"]

\* Lines 88-89: both maps are replaced, with no suspension in between.
reload_links_swap(r) ==
    /\ channel_links' = Tupled(r.cl)
    /\ link_channels' = Tupled(r.lc)
    /\ applied' = Range(r.records)
    /\ rl' = [IdleReload EXCEPT !.pc = "loaded"]

\* A reload_links that provisioned no hook.
NextUnhooked_none(channelids, i, hk) == 0

\* The first position >= i of channelids whose channel has no cached hook
\* (fetch_webhook_for returns a cached hook without suspending), 0 if none.
RECURSIVE NextUnhooked(_, _, _)
NextUnhooked(channelids, i, hk) ==
    IF i > Len(channelids) THEN 0
    ELSE IF channelids[i] \notin hk THEN i
    ELSE NextUnhooked(channelids, i + 1, hk)

\* The loop of lines 84-86 from position i on, up to its next suspension.
reload_links_loop(r, i, hk) ==
    LET j == NextUnhooked(r.channelids, i, hk)
    IN IF j = 0 THEN reload_links_swap(r)
       ELSE /\ rl' = [r EXCEPT !.pc = "hook_fetch", !.i = j]
            /\ UNCHANGED << index, applied >>

\* cog_load, linker_link and linker_unlink call reload_links.
ReloadCall ==
    /\ rl.pc \in {"idle", "failed", "loaded"}
    /\ rl' = [IdleReload EXCEPT !.pc = "select"]
    /\ UNCHANGED << maxsize, lk, hist, durable, hooks, index, caches, locking, task, platform, events, budget,
                    ghosts >>

\* Line 70 returns or raises; lines 71-83 follow.
ReloadSelect ==
    /\ rl.pc = "select"
    /\ \E ok \in BOOLEAN :
         IF ok
         THEN LET records == RowsOf(storage)
                  maps == BuildMaps(records, [cl |-> EmptyMap, lc |-> EmptyMap])
                  r == [rl EXCEPT !.records = records, !.cl = maps.cl, !.lc = maps.lc,
                                  !.channelids = TupleOf(DOMAIN maps.cl)]
              IN IF r.channelids = << >> THEN reload_links_swap(r)
                 ELSE /\ rl' = [r EXCEPT !.pc = "fetch_where"]
                      /\ UNCHANGED << index, applied >>
         ELSE reload_links_raise
    /\ UNCHANGED << maxsize, lk, hist, durable, hooks, caches, locking, task, platform, events, budget, fin, radds >>

\* Line 83 returns or raises.
ReloadFetchWhere ==
    /\ rl.pc = "fetch_where"
    /\ \E ok \in BOOLEAN :
         IF ok THEN reload_links_loop(rl, 1, hooks) ELSE reload_links_raise
    /\ UNCHANGED << maxsize, lk, hist, durable, hooks, caches, locking, task, platform, events, budget, fin, radds >>

\* fetch_webhook_for, line 187 returns or raises; lines 188-191 and 199-201.
HookFetch ==
    /\ rl.pc = "hook_fetch"
    /\ LET c == rl.channelids[rl.i]
       IN \E ok \in BOOLEAN, visible \in BOOLEAN :
            IF ~ok THEN reload_links_raise /\ UNCHANGED hooks
            ELSE IF c \in hookrows
            THEN /\ hooks' = hooks \cup {c}
                 /\ reload_links_loop(rl, rl.i + 1, hooks')
            ELSE IF visible
            THEN /\ rl' = [rl EXCEPT !.pc = "create"]
                 /\ UNCHANGED << hooks, index, applied >>
            ELSE reload_links_raise /\ UNCHANGED hooks
    /\ UNCHANGED << maxsize, lk, hist, durable, caches, locking, task, platform, events, budget, fin, radds >>

\* fetch_webhook_for, line 192 returns or raises.
HookCreate ==
    /\ rl.pc = "create"
    /\ \E ok \in BOOLEAN :
         IF ok THEN rl' = [rl EXCEPT !.pc = "persist"] /\ UNCHANGED << index, applied >>
         ELSE reload_links_raise
    /\ UNCHANGED << maxsize, lk, hist, durable, hooks, caches, locking, task, platform, events, budget, fin, radds >>

\* fetch_webhook_for, lines 193-197 return or raise; lines 200-201.
HookPersist ==
    /\ rl.pc = "persist"
    /\ LET c == rl.channelids[rl.i]
       IN \E ok \in BOOLEAN :
            IF ok /\ c \notin hookrows
            THEN /\ hookrows' = hookrows \cup {c}
                 /\ hooks' = hooks \cup {c}
                 /\ reload_links_loop(rl, rl.i + 1, hooks')
            ELSE reload_links_raise /\ UNCHANGED << hookrows, hooks >>
    /\ UNCHANGED << maxsize, lk, hist, storage, caches, locking, task, platform, events, budget, fin, radds >>

\* ------------------------------------------------------------- linker_link
\* An exception leaves fetch_webhook_for and the command that called it.
linker_link_raise == lk' = IdleLink

\* Lines 259-260 and 185-187: linker_link calls fetch_webhook_for for a
\* channel that has no cached hook, which suspends in LinkHook.fetch.
LinkCall(c) ==
    /\ lk.pc = "idle"
    /\ c \notin hooks
    /\ lk' = [pc |-> "hook_fetch", channelid |-> c]
    /\ UNCHANGED << maxsize, hist, durable, hooks, index, caches, locking, task, rl, platform,
                    events, budget, ghosts >>

\* fetch_webhook_for, line 187 returns or raises; lines 188-191 and 199-201.
LinkFetch ==
    /\ lk.pc = "hook_fetch"
    /\ \E ok \in BOOLEAN, visible \in BOOLEAN :
         IF ~ok THEN linker_link_raise /\ UNCHANGED hooks
         ELSE IF lk.channelid \in hookrows
         THEN hooks' = hooks \cup {lk.channelid} /\ lk' = IdleLink
         ELSE IF visible
         THEN lk' = [lk EXCEPT !.pc = "create"] /\ UNCHANGED hooks
         ELSE linker_link_raise /\ UNCHANGED hooks
    /\ UNCHANGED << maxsize, hist, durable, index, caches, locking, task, rl, platform, events,
                    budget, ghosts >>

\* fetch_webhook_for, line 192 returns the created webhook or raises.
LinkCreate ==
    /\ lk.pc = "create"
    /\ \E ok \in BOOLEAN :
         IF ok THEN lk' = [lk EXCEPT !.pc = "persist"] ELSE linker_link_raise
    /\ UNCHANGED << maxsize, hist, durable, hooks, index, caches, locking, task, rl, platform,
                    events, budget, ghosts >>

\* fetch_webhook_for, lines 193-197 return or raise (the table has one row
\* per channel); lines 200-201.
LinkPersist ==
    /\ lk.pc = "persist"
    /\ \E ok \in BOOLEAN :
         IF ok /\ lk.channelid \notin hookrows
         THEN /\ hookrows' = hookrows \cup {lk.channelid}
              /\ hooks' = hooks \cup {lk.channelid}
              /\ lk' = IdleLink
         ELSE linker_link_raise /\ UNCHANGED << hookrows, hooks >>
    /\ UNCHANGED << maxsize, hist, storage, index, caches, locking, task, rl, platform, events,
                    budget, ghosts >>

\* ---------------------------------------------------------------- listeners
\* An on_message without the check of lines 100-101.
webhook_id_unchecked(m) == FALSE

\* message.webhook_id of line 100.
webhook_id(m) == msgs[m].hook

\* The gateway hands the oldest event to a listener, which runs up to its
\* first suspension: on_message returns at line 101 for a webhook message,
\* every other listener queues for the lock.
Dispatch(t) ==
    /\ task[t].pc = "idle"
    /\ events # << >>
    /\ LET e == Head(events)
       IN /\ events' = Tail(events)
          /\ IF e.kind = "message" /\ webhook_id(e.m)
             THEN /\ fin' = [NoRun EXCEPT !.kind = "message", !.status = "ignored",
                                          !.m = e.m, !.chan = msgs[e.m].chan]
                  /\ UNCHANGED << task, waiters >>
             ELSE /\ task' = [task EXCEPT ![t] =
                                [IdleTask EXCEPT !.pc = "wait", !.kind = e.kind, !.m = e.m,
                                                 !.chan = msgs[e.m].chan,
                                                 !.content = e.content,
                                                 !.emoji = e.emoji]]
                  /\ waiters' = Append(waiters, t)
                  /\ UNCHANGED fin
    /\ UNCHANGED << maxsize, lk, hist, durable, hooks, index, caches, lock, rl, platform, budget, radds, applied >>

\* A listener that did not wait for the lock to be free.
Acquires_unlocked(t, kind) ==
    /\ task[t].pc = "wait"
    /\ task[t].kind = kind
    /\ waiters # << >>
    /\ Head(waiters) = t
    /\ waiters' = Tail(waiters)

\* `async with self.lock`: the lock is free and t is its oldest waiter.
Acquires(t, kind) ==
    /\ task[t].pc = "wait"
    /\ task[t].kind = kind
    /\ lock = {}
    /\ waiters # << >>
    /\ Head(waiters) = t
    /\ waiters' = Tail(waiters)

\* A listener that kept the lock when it ended.
Ends_keeps_lock(t, run) ==
    /\ task' = [task EXCEPT ![t] = IdleTask]
    /\ lock' = lock
    /\ fin' = run

\* The listener run of task t ends (returning or raising) and releases the lock.
Ends(t, run) ==
    /\ task' = [task EXCEPT ![t] = IdleTask]
    /\ lock' = {}
    /\ fin' = run

\* ---------------------------------------------------------------- on_message
\* The loops of lines 107-109 from link position li, channel position ci on:
\* the next destination, "end" when the loops are over, "keyerror" when
\* self.link_channels[linkid] of line 108 has no such link.
RECURSIVE NextDest(_, _, _, _, _, _)
NextDest(linkids, li, chans, ci, origin, lc) ==
    IF ci < Len(chans)
    THEN IF chans[ci + 1] # origin
         THEN [st |-> "at", li |-> li, chans |-> chans, ci |-> ci + 1]
         ELSE NextDest(linkids, li, chans, ci + 1, origin, lc)
    ELSE IF li < Len(linkids)
    THEN IF linkids[li + 1] \in DOMAIN lc
         THEN NextDest(linkids, li + 1, lc[linkids[li + 1]], 0, origin, lc)
         ELSE [st |-> "keyerror", li |-> li + 1, chans |-> << >>, ci |-> 0]
    ELSE [st |-> "end", li |-> li, chans |-> chans, ci |-> ci]

\* What is kept of a listener run that ends: its locals, and the correlation
\* of its message in the caches mc and wm it leaves behind.
RunOf(tk, status, mc, wm) ==
    [NoRun EXCEPT !.kind = tk.kind, !.status = status, !.m = tk.m, !.chan = tk.chan,
                  !.sent = tk.sent, !.exp0 = tk.exp0, !.cached = tk.cached,
                  !.ops = tk.ops,
                  !.exp1 = Others(channel_links, link_channels, tk.chan),
                  !.fwd = CacheGet(mc, tk.m, << >>),
                  !.rev = { k \in CacheKeys(wm) : CacheGet(wm, k, 0) = tk.m }]

\* The forward entries that are in cache mc and no longer in cache mc2 were
\* evicted by the assignment that made mc2 of mc.
Evicting(mc, mc2) ==
    [hist EXCEPT !.evicted = @ \cup (CacheKeys(mc) \ CacheKeys(mc2))]

\* Lines 128-134: the correlation of a fan-out that sent something.
on_message_wmessages(tk, wm) ==
    IF tk.sent # << >> THEN CacheSet(wm, tk.m, tk.m, maxsize.wmessages) ELSE wm

on_message_cache(tk, mc) ==
    IF tk.sent # << >>
    THEN CacheSet(mc, tk.m, Append(tk.sent, << tk.chan, tk.m >>), maxsize.message_cache)
    ELSE mc

\* on_message from loop position (li, chans, ci) up to its next suspension,
\* the await of hook.send at line 117, or to its end.  wm is wmessages so far.
on_message_goto(t, tk, li, chans, ci, wm) ==
    LET nx == NextDest(tk.linkids, li, chans, ci, tk.chan, link_channels)
    IN CASE nx.st = "at" /\ nx.chans[nx.ci] \in hooks ->
              /\ task' = [task EXCEPT ![t] =
                            [tk EXCEPT !.pc = "send", !.li = nx.li, !.chans = nx.chans,
                                       !.ci = nx.ci]]
              /\ lock' = {t}
              /\ wmessages' = wm
              /\ UNCHANGED << message_cache, fin, hist >>
         [] nx.st = "at" /\ nx.chans[nx.ci] \notin hooks ->
              \* KeyError at line 115
              /\ Ends(t, [RunOf(tk, "raised", message_cache, wm)
                            EXCEPT !.failed = nx.chans[nx.ci]])
              /\ wmessages' = wm
              /\ UNCHANGED << message_cache, hist >>
         [] nx.st = "keyerror" ->
              /\ Ends(t, RunOf(tk, "raised", message_cache, wm))
              /\ wmessages' = wm
              /\ UNCHANGED << message_cache, hist >>
         [] nx.st = "end" ->
              /\ wmessages' = on_message_wmessages(tk, wm)
              /\ message_cache' = on_message_cache(tk, message_cache)
              /\ hist' = Evicting(message_cache, message_cache')
              /\ Ends(t, RunOf(tk, "done", message_cache', wmessages'))

\* Lines 103-106: the lock is taken and the links of the channel are read.
OnMessage(t) ==
    /\ Acquires(t, "message")
    /\ LET tk == [task[t] EXCEPT
                    !.linkids = Get(channel_links, task[t].chan, << >>),
                    !.exp0 = Others(channel_links, link_channels, task[t].chan)]
       IN on_message_goto(t, tk, 0, << >>, 0, wmessages)
    /\ UNCHANGED << maxsize, lk, durable, hooks, index, rl, platform, events, budget, radds,
                    applied >>

\* hook.send of line 117 returns the new message or raises; lines 126-127
\* and the loops go on.
OnMessageSend(t) ==
    /\ task[t].pc = "send"
    /\ LET tk == task[t]
           dest == tk.chans[tk.ci]
           new == Len(msgs) + 1
       IN \E ok \in BOOLEAN :
            IF ok
            THEN /\ Len(msgs) < MaxMsg
                 /\ msgs' = Append(msgs, [chan |-> dest, hook |-> TRUE, live |-> TRUE,
                                          content |-> msgs[tk.m].content, src |-> tk.m])
                 /\ events' = Append(events, Event("message", new, 0, 0))
                 /\ on_message_goto(t, [tk EXCEPT !.sent = Append(@, << dest, new >>)],
                                    tk.li, tk.chans, tk.ci,
                                    CacheSet(wmessages, new, tk.m, maxsize.wmessages))
            ELSE /\ Ends(t, [RunOf(tk, "raised", message_cache, wmessages)
                                EXCEPT !.failed = dest])
                 /\ UNCHANGED << caches, msgs, events, hist >>
    /\ UNCHANGED << maxsize, lk, durable, hooks, index, waiters, rl, reacts, budget, radds,
                    applied >>

\* ----------------------------------------------------------- on_message_edit
\* The loop of lines 142-151 from position i on, up to the next copy whose id
\* is not before.id (its edit is awaited): that position, 0 at the end of the
\* list, and new_sent with the entries passed on the way.
RECURSIVE EditScan(_, _, _, _)
EditScan(cached, i, before, new_sent) ==
    IF i > Len(cached) THEN [i |-> 0, new_sent |-> new_sent]
    ELSE IF cached[i][2] # before THEN [i |-> i, new_sent |-> new_sent]
    ELSE EditScan(cached, i + 1, before, Append(new_sent, cached[i]))

\* Lines 152-153.
on_message_edit_cache(tk, mc) ==
    IF tk.new_sent # << >> THEN CacheSet(mc, tk.m, tk.new_sent, maxsize.message_cache)
    ELSE mc

\* on_message_edit from position i of cached_sent up to its next suspension,
\* the await of msg.edit at line 145, or to its end.  mc is message_cache so far.
on_message_edit_goto(t, tk, i, mc) ==
    LET sc == EditScan(tk.cached, i, tk.m, tk.new_sent)
        nk == [tk EXCEPT !.new_sent = sc.new_sent, !.i = sc.i]
    IN IF sc.i # 0
       THEN /\ task' = [task EXCEPT ![t] = [nk EXCEPT !.pc = "edit"]]
            /\ lock' = {t}
            /\ message_cache' = mc
            /\ UNCHANGED << fin, hist >>
       ELSE /\ message_cache' = on_message_edit_cache(nk, mc)
            /\ hist' = Evicting(mc, message_cache')
            /\ Ends(t, RunOf(nk, "done", message_cache', wmessages))

\* Lines 139-141: the lock is taken and the correlation of before.id popped.
OnEdit(t) ==
    /\ Acquires(t, "edit")
    /\ on_message_edit_goto(t, [task[t] EXCEPT
                                  !.cached = CacheGet(message_cache, task[t].m, << >>)],
                            1, CacheDrop(message_cache, task[t].m))
    /\ UNCHANGED << maxsize, lk, durable, hooks, index, wmessages, rl, platform, events, budget, radds,
                    applied >>

\* msg.edit of line 145 returns the edited copy, raises NotFound for a copy
\* that is gone, or raises another HTTPException; lines 149-153 follow.
OnEditStep(t) ==
    /\ task[t].pc = "edit"
    /\ LET tk == task[t]
           entry == tk.cached[tk.i]
           target == entry[2]
       IN IF ~msgs[target].live
          THEN /\ on_message_edit_goto(
                     t, [tk EXCEPT !.ops = Append(@, << target, "notfound" >>)],
                     tk.i + 1, message_cache)
               /\ UNCHANGED << msgs, events >>
          ELSE \E ok \in BOOLEAN :
                 IF ok
                 THEN /\ msgs' = [msgs EXCEPT ![target].content = tk.content]
                      /\ events' = Append(events, Event("edit", target, tk.content, 0))
                      /\ on_message_edit_goto(
                            t, [tk EXCEPT !.ops = Append(@, << target, "ok" >>),
                                          !.new_sent = Append(@, entry)],
                            tk.i + 1, message_cache)
                 ELSE /\ Ends(t, RunOf([tk EXCEPT !.ops = Append(@, << target, "error" >>)],
                                       "raised", message_cache, wmessages))
                      /\ UNCHANGED << message_cache, msgs, events, hist >>
    /\ UNCHANGED << maxsize, lk, durable, hooks, index, wmessages, waiters, rl, reacts, budget, radds,
                    applied >>

\* --------------------------------------------------------- on_message_delete
\* The first position >= i of cached_sent whose message is not message m
\* (lines 163 and 179), 0 if there is none.
RECURSIVE NextOther(_, _, _)
NextOther(cached, i, m) ==
    IF i > Len(cached) THEN 0
    ELSE IF cached[i][2] # m THEN i
    ELSE NextOther(cached, i + 1, m)

\* on_message_delete from position i of cached_sent up to its next suspension,
\* the await of msg.delete at line 164, or to its end.
on_message_delete_goto(t, tk, i, mc, h) ==
    LET j == NextOther(tk.cached, i, tk.m)
    IN /\ message_cache' = mc
       /\ hist' = h
       /\ IF j # 0
          THEN /\ task' = [task EXCEPT ![t] = [tk EXCEPT !.pc = "delete", !.i = j]]
               /\ lock' = {t}
               /\ UNCHANGED fin
          ELSE Ends(t, RunOf(tk, "done", mc, wmessages))

\* Lines 157-160: the lock is taken, the origin id looked up, its correlation
\* popped.
OnDelete(t) ==
    /\ Acquires(t, "delete")
    /\ LET origid == CacheGet(wmessages, task[t].m, 0)
       IN IF origid # 0
          THEN on_message_delete_goto(
                   t, [task[t] EXCEPT !.cached = CacheGet(message_cache, origid, << >>)],
                   1, CacheDrop(message_cache, origid),
                   IF CacheHas(message_cache, origid)
                   THEN [hist EXCEPT !.popped = Put(@, origid, Get(@, origid, 0) + 1)]
                   ELSE hist)
          ELSE on_message_delete_goto(t, task[t], 1, message_cache, hist)
    /\ UNCHANGED << maxsize, lk, durable, hooks, index, wmessages, rl, platform, events, budget, radds,
                    applied >>

\* msg.delete of line 164 returns, raises NotFound for a copy that is gone,
\* or raises another HTTPException.
OnDeleteStep(t) ==
    /\ task[t].pc = "delete"
    /\ LET tk == task[t]
           target == tk.cached[tk.i][2]
           h == [hist EXCEPT !.dels = Put(@, target, Get(@, target, 0) + 1)]
       IN IF ~msgs[target].live
          THEN /\ on_message_delete_goto(
                     t, [tk EXCEPT !.ops = Append(@, << target, "notfound" >>)],
                     tk.i + 1, message_cache, h)
               /\ UNCHANGED << msgs, events >>
          ELSE \E ok \in BOOLEAN :
                 IF ok
                 THEN /\ msgs' = [msgs EXCEPT ![target].live = FALSE]
                      /\ events' = Append(events, Event("delete", target, 0, 0))
                      /\ on_message_delete_goto(
                            t, [tk EXCEPT !.ops = Append(@, << target, "ok" >>)],
                            tk.i + 1, message_cache, h)
                 ELSE /\ Ends(t, RunOf([tk EXCEPT !.ops = Append(@, << target, "error" >>)],
                                       "raised", message_cache, wmessages))
                      /\ hist' = h
                      /\ UNCHANGED << message_cache, msgs, events >>
    /\ UNCHANGED << maxsize, lk, durable, hooks, index, wmessages, waiters, rl, reacts, budget, radds,
                    applied >>

\* ----------------------------------------------------------- on_reaction_add
\* reaction.count of line 174: the reaction object of the cached message,
\* which the library keeps up to date, read when the body runs.
reaction_count(m, e) == ReactionOf(reacts, m, e).n

\* on_reaction_add from position i of cached_sent up to its next suspension,
\* the await of msg.add_reaction at line 180, or to its end.
on_reaction_add_goto(t, tk, i) ==
    LET j == NextOther(tk.cached, i, tk.m)
    IN IF j # 0
       THEN /\ task' = [task EXCEPT ![t] = [tk EXCEPT !.pc = "react", !.i = j]]
            /\ lock' = {t}
            /\ UNCHANGED fin
       ELSE Ends(t, RunOf(tk, "done", message_cache, wmessages))

\* Lines 170-175: the lock is taken, the origin id and the count are read.
OnReaction(t) ==
    /\ Acquires(t, "reaction")
    /\ LET origid == CacheGet(wmessages, task[t].m, 0)
       IN IF origid # 0 /\ reaction_count(task[t].m, task[t].emoji) = 1
          THEN on_reaction_add_goto(
                   t, [task[t] EXCEPT !.cached = CacheGet(message_cache, origid, << >>)], 1)
          ELSE on_reaction_add_goto(t, task[t], 1)
    /\ UNCHANGED << maxsize, lk, hist, durable, hooks, index, caches, rl, platform, events, budget, radds,
                    applied >>

\* msg.add_reaction of line 180 returns or raises an HTTPException, which
\* line 181 swallows.  The platform counts the relay's reaction once.
OnReactionStep(t) ==
    /\ task[t].pc = "react"
    /\ LET tk == task[t]
           target == tk.cached[tk.i][2]
           old == ReactionOf(reacts, target, tk.emoji)
       IN /\ radds' = Put(radds, target, Get(radds, target, 0) + 1)
          /\ \E ok \in BOOLEAN :
               IF ok /\ msgs[target].live
               THEN /\ IF old.bot THEN UNCHANGED << reacts, events >>
                       ELSE /\ reacts' = Put(reacts, << target, tk.emoji >>,
                                             [n |-> old.n + 1, bot |-> TRUE])
                            /\ events' = Append(events,
                                                Event("reaction", target, 0, tk.emoji))
                    /\ on_reaction_add_goto(
                          t, [tk EXCEPT !.ops = Append(@, << target, "ok" >>)], tk.i + 1)
               ELSE /\ on_reaction_add_goto(
                          t, [tk EXCEPT !.ops = Append(@, << target, "error" >>)], tk.i + 1)
                    /\ UNCHANGED << reacts, events >>
    /\ UNCHANGED << maxsize, lk, hist, durable, hooks, index, caches, waiters, rl, msgs, budget, applied >>

\* -------------------------------------------------------------------- claims
\* The channels a fan-out posted into, and how many posts it made.
SentChans(run) == { run.sent[i][1] : i \in 1..Len(run.sent) }

EndedMessage == fin.kind = "message" /\ fin.status \in {"done", "raised"}

\* C1: when no post of a fan-out failed, the channels posted into are exactly
\* the other member channels of the links of the origin channel (as the index
\* stood when the listener took the lock, or as it stands when it ends).
C1_MirrorsToExactlyTheOthers ==
    (EndedMessage /\ fin.failed = 0)
        => (SentChans(fin) = fin.exp0 \/ SentChans(fin) = fin.exp1)

\* C2: a message the relay produced is never mirrored again: no listener
\* body runs for it, no copy is a copy of it, and neither cache holds a
\* correlation with it as the origin.
C2_RelayMessagesAreNotMirrored ==
    /\ \A t \in Tasks : task[t].kind = "message" => ~msgs[task[t].m].hook
    /\ \A n \in 1..Len(msgs) : msgs[n].src # 0 => ~msgs[msgs[n].src].hook
    /\ \A k \in CacheKeys(message_cache) : ~msgs[k].hook
    /\ \A k \in CacheKeys(wmessages) : ~msgs[CacheGet(wmessages, k, 0)].hook

\* C2 witness: on_message was called for a mirrored copy and returned.
C2_Witness ==
    /\ fin.kind = "message" /\ fin.status = "ignored"
    /\ msgs[fin.m].hook /\ msgs[fin.m].src # 0

\* C3: one fan-out posts into each destination channel at most once.
C3_OnePostPerDestination ==
    EndedMessage => \A i, j \in 1..Len(fin.sent) :
                        fin.sent[i][1] = fin.sent[j][1] => i = j

\* C4: a destination whose post fails is skipped: every other destination is
\* still posted into, and the posts that succeeded are correlated.
C4_FailedDestinationIsSkipped ==
    (EndedMessage /\ fin.failed # 0)
        => /\ fin.exp0 \ {fin.failed} \subseteq SentChans(fin)
           /\ fin.sent # << >> => fin.fwd # << >>

\* C5: after on_message for m a forward entry for m exists iff a post
\* succeeded; it is then the successful pairs plus <<origin channel, m>>, and
\* the reverse index maps m and every copy to m; with no successful post
\* nothing is recorded for m.
C5_CorrelationRecordedIffSent ==
    EndedMessage
        => /\ (fin.fwd # << >>) <=> (fin.sent # << >>)
           /\ fin.fwd # << >> =>
                 /\ fin.fwd = Append(fin.sent, << fin.chan, fin.m >>)
                 /\ fin.rev = { fin.fwd[i][2] : i \in 1..Len(fin.fwd) }
           /\ fin.sent = << >> => fin.rev = {}

\* The messages a run called the platform for, and with which outcome.
Targets(run) == { run.ops[i][1] : i \in 1..Len(run.ops) }

Outcome(run, n, what) == << n, what >> \in Range(run.ops)

EndedEdit ==
    fin.kind = "edit" /\ fin.status \in {"done", "raised"} /\ fin.cached # << >>

EndedDelete ==
    fin.kind = "delete" /\ fin.status \in {"done", "raised"} /\ fin.cached # << >>

\* C6: on_message_edit of a correlated origin message calls edit on every
\* copy other than the edited message and never on that message, and leaves
\* the forward entry under the post-edit id with the origin and the copies
\* that were edited, without the copies reported not found.
C6_EditReachesEveryCopy ==
    EndedEdit
        => /\ \A i \in 1..Len(fin.cached) :
                 fin.cached[i][2] # fin.m => fin.cached[i][2] \in Targets(fin)
           /\ fin.m \notin Targets(fin)
           /\ \A i \in 1..Len(fin.cached) :
                 (fin.cached[i][2] = fin.m \/ Outcome(fin, fin.cached[i][2], "ok"))
                     => fin.cached[i] \in Range(fin.fwd)
           /\ \A i \in 1..Len(fin.fwd) :
                 /\ fin.fwd[i] \in Range(fin.cached)
                 /\ ~Outcome(fin, fin.fwd[i][2], "notfound")

\* C7: on_message_delete of a message whose correlation is in both caches
\* calls delete on every other copy and never on the deleted message.
C7_DeleteReachesEveryCopy ==
    EndedDelete
        => /\ \A i \in 1..Len(fin.cached) :
                 fin.cached[i][2] # fin.m => fin.cached[i][2] \in Targets(fin)
           /\ fin.m \notin Targets(fin)

\* C8: over any sequence of reaction events a message receives at most one
\* add_reaction call of the relay.
C8_ReactionMirroredOnce ==
    \A n \in DOMAIN radds : radds[n] <= 1

\* C9: a reload_links run that fails leaves both maps of the index as they
\* were.
C9_FailedReloadKeepsIndex ==
    [][(rl.pc # "failed" /\ rl'.pc = "failed")
          => (channel_links' = channel_links /\ link_channels' = link_channels)]_vars

\* C9 witness: a run failed after it fetched rows that differ from the ones
\* the index was built from.
C9_Witness ==
    /\ rl.pc = "failed"
    /\ channel_links # EmptyMap
    /\ applied # storage

\* C10: after a successful reload_links the index is the projection of the
\* rows that run fetched and nothing else, the stored rows when storage did
\* not change: c is in link_channels[l] iff l is in channel_links[c] iff
\* <<l, c>> was fetched; the index is determined by the rows alone.
C10_IndexIsProjectionOfStorage ==
    rl.pc = "loaded"
        => /\ budget.admin = 0 => applied = storage
           /\ \A l \in Links, c \in Channels :
                 /\ (l \in DOMAIN link_channels /\ c \in Range(link_channels[l]))
                        <=> << l, c >> \in applied
                 /\ (c \in DOMAIN channel_links /\ l \in Range(channel_links[c]))
                        <=> << l, c >> \in applied
           /\ DOMAIN link_channels = { r[1] : r \in applied }
           /\ DOMAIN channel_links = { r[2] : r \in applied }
           /\ channel_links = Tupled(Loaded(applied).cl)
           /\ link_channels = Tupled(Loaded(applied).lc)

\* C10 witness: a reload succeeded after administration removed a row that
\* an earlier run had loaded.
C10_Witness ==
    /\ rl.pc = "loaded"
    /\ budget.admin > 0
    /\ applied = storage
    /\ applied # {}
    /\ \E r \in InitStorages : r # {} /\ ~(r \subseteq storage) /\ storage \subseteq r

\* The keys a step inserts into cache c, and the keys it removes.
Inserted(c, c2) == CacheKeys(c2) \ CacheKeys(c)

Removed(c, c2) == CacheKeys(c) \ CacheKeys(c2)

Max(a, b) == IF a >= b THEN a ELSE b

\* A step that inserts new keys into cache c of capacity cap, making c2 of
\* it, evicts as many items as are in excess, which are the oldest ones, keeps
\* the others in their order and puts the new ones behind them.
EvictsOldest(c, c2, cap) ==
    LET excess == Max(0, Len(c) + Cardinality(Inserted(c, c2)) - cap)
    IN Inserted(c, c2) # {}
          => /\ Cardinality(Removed(c, c2)) = excess
             /\ Removed(c, c2) = { c[i][1] : i \in 1..excess }
             /\ SubSeq(c2, 1, Len(c) - excess) = SubSeq(c, excess + 1, Len(c))

\* The step is a hook.send that returned the copy n (line 126).
Posted(n) == Len(msgs') = Len(msgs) + 1 /\ n = Len(msgs') /\ msgs'[n].hook

\* C11: neither cache ever holds more items than its maxsize, and inserting
\* into a full cache evicts exactly the oldest-inserted item and no other: the
\* reverse entry of a copy just posted is not the one that goes.
C11_CachesEvictOldestFirst ==
    /\ [](/\ Len(message_cache) <= maxsize.message_cache
          /\ Len(wmessages) <= maxsize.wmessages)
    /\ [][/\ EvictsOldest(message_cache, message_cache', maxsize.message_cache)
          /\ EvictsOldest(wmessages, wmessages', maxsize.wmessages)
          /\ \A n \in 1..MaxMsg : Posted(n) => CacheHas(wmessages', n)]_vars

\* C11 witness: both caches are full, the forward entry of message 1 was
\* evicted for that of a later message, and so was the reverse entry of a copy.
C11_Witness ==
    /\ Len(message_cache) = maxsize.message_cache
    /\ Len(wmessages) = maxsize.wmessages
    /\ hist.evicted # {}
    /\ message_cache # << >> /\ message_cache[1][1] \notin hist.evicted
    /\ \E n \in 1..Len(msgs) : msgs[n].src # 0 /\ ~CacheHas(wmessages, n)

\* The correlation that a listener of the given kind needs for message m is
\* absent: on_message_edit looks m up in the forward cache, the other two
\* look m up in the reverse cache and the origin found in the forward cache.
Absent(kind, m) ==
    IF kind = "edit" THEN ~CacheHas(message_cache, m)
    ELSE \/ ~CacheHas(wmessages, m)
         \/ ~CacheHas(message_cache, CacheGet(wmessages, m, 0))

\* C12: an edit, delete or reaction listener that takes the lock for a
\* message whose correlation is absent ends at once without an error, calls
\* the platform for nothing and leaves both caches as they were.
C12_AbsentCorrelationIsNoOp ==
    [][\A t \in Tasks :
          (/\ task[t].pc = "wait"
           /\ task'[t].pc # "wait"
           /\ task[t].kind \in {"edit", "delete", "reaction"}
           /\ Absent(task[t].kind, task[t].m))
              => /\ task'[t] = IdleTask
                 /\ fin'.kind = task[t].kind /\ fin'.m = task[t].m
                 /\ fin'.status = "done"
                 /\ fin'.ops = << >>
                 /\ UNCHANGED << caches, platform, radds, hist >>]_vars

\* C12 witness: on_message_delete ran for an origin message whose forward
\* entry had been evicted while its reverse entry was still cached, and
\* did nothing.
C12_Witness ==
    /\ fin.kind = "delete" /\ fin.status = "done"
    /\ fin.cached = << >>
    /\ fin.m \in hist.evicted
    /\ CacheHas(wmessages, fin.m)
    /\ hist.dels = NoHist.dels

\* The channel a caller of fetch_webhook_for created a webhook for at line
\* 192 and has not stored yet (it is suspended in lines 193-197), 0 if none.
CreatedBy_reload_links == IF rl.pc = "persist" THEN rl.channelids[rl.i] ELSE 0

CreatedBy_linker_link == IF lk.pc = "persist" THEN lk.channelid ELSE 0

\* C13: concurrent calls of fetch_webhook_for never create two webhooks for
\* one channel: two callers never hold a created webhook for the same channel
\* at once, and no caller holds one for a channel whose row is stored.
C13_OneIdentityPerChannel ==
    /\ CreatedBy_reload_links # 0 => CreatedBy_reload_links # CreatedBy_linker_link
    /\ CreatedBy_reload_links \notin hookrows
    /\ CreatedBy_linker_link \notin hookrows

\* C14: the link index and the hook cache change only inside the serialized
\* region: while a listener body is suspended inside `async with self.lock`
\* no step changes channel_links, link_channels or hooks.
C14_IndexChangesOnlyUnderLock ==
    [][lock # {} => /\ channel_links' = channel_links
                    /\ link_channels' = link_channels
                    /\ hooks' = hooks]_vars

\* The tasks suspended inside a listener body, at an awaited platform call.
Body == {"send", "edit", "delete", "react"}

InBody == { t \in Tasks : task[t].pc \in Body }

\* C15: at most one listener body executes at a time: never two tasks are
\* inside a body, the lock is held by exactly the task that is, and a step
\* that changes a correlation cache is a step of one task while no other task
\* is inside a body.
C15_OneBodyAtATime ==
    /\ [](Cardinality(InBody) <= 1 /\ lock = InBody)
    /\ [][caches' # caches
             => \E t \in Tasks : /\ task'[t] # task[t]
                                 /\ \A u \in Tasks \ {t} : task[u].pc \notin Body]_vars

\* C15 witness: one task is suspended inside a body after it wrote to a
\* cache, while the task of another event waits for the lock.
C15_Witness ==
    \E t, u \in Tasks : /\ task[t].pc = "send"
                        /\ task[t].sent # << >>
                        /\ task[u].pc = "wait"

\* C16: while no listener body is running, every id in the reverse cache whose
\* origin was not evicted from the forward cache has a forward entry for that
\* origin.
C16_ReverseEntryHasForwardEntry ==
    lock = {}
        => \A k \in CacheKeys(wmessages) :
              CacheGet(wmessages, k, 0) \notin hist.evicted
                  => CacheHas(message_cache, CacheGet(wmessages, k, 0))

EndedFollowUp ==
    /\ fin.kind \in {"edit", "delete", "reaction"}
    /\ fin.status \in {"done", "raised"}
    /\ fin.cached # << >>

\* C17: an edit, delete or reaction listener that found copies does not
\* raise whatever the platform answers for one copy, calls the platform for
\* every copy other than the message of the event, and an edit leaves a
\* forward entry behind.
C17_FailureIsContained ==
    EndedFollowUp
        => /\ fin.status = "done"
           /\ \A i \in 1..Len(fin.cached) :
                 fin.cached[i][2] # fin.m => fin.cached[i][2] \in Targets(fin)
           /\ fin.kind = "edit" => fin.fwd # << >>

\* The channels of the in-memory link index.
IndexedChannels ==
    DOMAIN channel_links
        \cup UNION { Range(link_channels[l]) : l \in DOMAIN link_channels }

\* C18: every channel of the link index has a hook in self.hooks, and the
\* lookup self.hooks[channelid] of line 115 never misses: no fan-out is
\* about to post into, or was ended by, a channel without a hook.
C18_IndexedChannelsHaveHooks ==
    /\ IndexedChannels \subseteq hooks
    /\ \A t \in Tasks : task[t].pc = "send" => task[t].chans[task[t].ci] \in hooks
    /\ (fin.kind = "message" /\ fin.failed # 0) => fin.failed \in hooks

\* C18 witness: after administration changed the memberships and a reload
\* failed, a fan-out posted into a channel of the index as reloaded, whose
\* hook reload_links had to create.
C18_Witness ==
    /\ budget.admin > 0
    /\ rl.pc = "failed"
    /\ applied # {}
    /\ fin.kind = "message" /\ fin.status = "done" /\ fin.sent # << >>
    /\ \E c \in SentChans(fin) : c \in IndexedChannels /\ c \in hooks \ {1, 2}

\* The origin message of message n: n itself, or the message n is a copy of.
Origin(n) == IF msgs[n].src = 0 THEN n ELSE msgs[n].src

\* C19: a delete consumes the correlation: the forward entry of an origin is
\* popped by at most one on_message_delete and is never cached again, no
\* edit or reaction listener calls the platform for an origin whose entry was
\* popped, and no message receives more than one deletion attempt.
C19_DeleteConsumesCorrelation ==
    /\ \A n \in DOMAIN hist.dels : hist.dels[n] <= 1
    /\ \A o \in DOMAIN hist.popped :
          hist.popped[o] <= 1 /\ ~CacheHas(message_cache, o)
    /\ \A t \in Tasks :
          task[t].pc \in {"edit", "react"} => Origin(task[t].m) \notin DOMAIN hist.popped

\* C19 witness: the delete event of a copy that the relay itself deleted was
\* handled, and did nothing.
C19_Witness ==
    /\ fin.kind = "delete" /\ fin.status = "done"
    /\ fin.cached = << >> /\ fin.ops = << >>
    /\ msgs[fin.m].hook
    /\ Get(hist.dels, fin.m, 0) > 0
    /\ Origin(fin.m) \in DOMAIN hist.popped

\* C20: after on_message_edit of a correlated origin message the forward
\* entry is cached under the message's id, and it and the reverse cache
\* still hold the origin and every copy that was not reported not found, so
\* that a later delete reaches them.
C20_EditKeepsDeletePropagation ==
    EndedEdit
        => /\ fin.fwd # << >>
           /\ fin.m \in fin.rev
           /\ \A i \in 1..Len(fin.cached) :
                 ~Outcome(fin, fin.cached[i][2], "notfound")
                     => /\ fin.cached[i] \in Range(fin.fwd)
                        /\ fin.cached[i][2] \in fin.rev

\* C21: the lock is released on every exit of a listener, also a raising
\* one, and when every awaited call returns or raises and tasks are scheduled
\* fairly, every listener that waits for the lock ends, a held lock is
\* released and every delivered event is handed to a listener.
C21_LockIsAlwaysReleased ==
    /\ [][\A t \in Tasks :
             (task[t].pc \in Body /\ task'[t].pc = "idle") => lock' = {}]_vars
    /\ \A t \in Tasks : (task[t].pc = "wait") ~> (task[t].pc = "idle")
    /\ (lock # {}) ~> (lock = {})
    /\ (events # << >>) ~> (events = << >>)

\* C21 witness: a listener raised inside its body, and afterwards the
\* listener of another event took the lock.
C21_Witness ==
    /\ fin.status = "raised"
    /\ \E t \in Tasks : task[t].pc \in Body /\ lock = {t} /\ task[t].m # fin.m

\* -------------------------------------------------------------------- system
Reloading ==
    \/ ReloadCall
    \/ ReloadSelect
    \/ ReloadFetchWhere
    \/ HookFetch
    \/ HookCreate
    \/ HookPersist

FanningOut ==
    \/ \E c \in Channels : UserPost(c)
    \/ \E t \in Tasks : Dispatch(t)
    \/ \E t \in Tasks : OnMessage(t)
    \/ \E t \in Tasks : OnMessageSend(t)

Following ==
    \/ \E m \in 1..MaxMsg : UserEdit(m)
    \/ \E m \in 1..MaxMsg : UserDelete(m)
    \/ \E m \in 1..MaxMsg, e \in Emojis : UserReact(m, e)
    \/ \E t \in Tasks : OnEdit(t)
    \/ \E t \in Tasks : OnEditStep(t)
    \/ \E t \in Tasks : OnDelete(t)
    \/ \E t \in Tasks : OnDeleteStep(t)
    \/ \E t \in Tasks : OnReaction(t)
    \/ \E t \in Tasks : OnReactionStep(t)

Administering == \E l \in Links, c \in Channels : AdminChange(l, c)

Linking ==
    \/ \E c \in Channels : LinkCall(c)
    \/ LinkFetch
    \/ LinkCreate
    \/ LinkPersist

\* The whole system.
Next == Reloading \/ FanningOut \/ Following \/ Administering \/ Linking

Spec == Init /\ [][Next]_vars

\* The state once cog_load has returned: the stored memberships are loaded
\* and every linked channel has its hook.
InitRelay ==
    /\ storage \in InitStorages
    /\ hookrows = { r[2] : r \in storage }
    /\ hooks = hookrows
    /\ channel_links = Tupled(Loaded(storage).cl)
    /\ link_channels = Tupled(Loaded(storage).lc)
    /\ message_cache = << >>
    /\ wmessages = << >>
    /\ lock = {}
    /\ waiters = << >>
    /\ task = [t \in Tasks |-> IdleTask]
    /\ rl = [IdleReload EXCEPT !.pc = "loaded"]
    /\ msgs = << >>
    /\ reacts = [x \in {} |-> 0]
    /\ events = << >>
    /\ budget = [posts |-> 0, admin |-> 0, env |-> 0]
    /\ fin = NoRun
    /\ radds = [x \in {} |-> 0]
    /\ applied = storage
    /\ maxsize = Constructed
    /\ lk = IdleLink
    /\ hist = NoHist

\* The relay over a loaded index that does not change.
NextRelay == FanningOut \/ Following

SpecRelay == InitRelay /\ [][NextRelay]_vars

\* Fan-out alone over a loaded index.
NextFanOut == FanningOut

SpecFanOut == InitRelay /\ [][NextFanOut]_vars

\* Loading the index while administration changes the stored memberships.
NextReload == Reloading \/ Administering

SpecReload == Init /\ [][NextReload]_vars

\* Loading the index and fanning out while administration changes the stored
\* memberships.
NextIndex == Reloading \/ FanningOut \/ Administering

SpecIndex == Init /\ [][NextIndex]_vars

\* Caches constructed with small capacities, once the message 1 of channel 1
\* has been mirrored into channel 2 as message 2 and the event of the copy
\* has been ignored: message_cache is full.
InitSmall ==
    /\ storage = { << 1, 1 >>, << 1, 2 >>, << 2, 1 >> }
    /\ hookrows = { r[2] : r \in storage }
    /\ hooks = hookrows
    /\ channel_links = Tupled(Loaded(storage).cl)
    /\ link_channels = Tupled(Loaded(storage).lc)
    /\ maxsize = [message_cache |-> SmallForward, wmessages |-> SmallReverse]
    /\ msgs = << [chan |-> 1, hook |-> FALSE, live |-> TRUE, content |-> 0, src |-> 0],
                 [chan |-> 2, hook |-> TRUE, live |-> TRUE, content |-> 0, src |-> 1] >>
    /\ message_cache = << << 1, << << 2, 2 >>, << 1, 1 >> >> >> >>
    /\ wmessages = << << 2, 1 >>, << 1, 1 >> >>
    /\ lock = {}
    /\ waiters = << >>
    /\ task = [t \in Tasks |-> IdleTask]
    /\ rl = [IdleReload EXCEPT !.pc = "loaded"]
    /\ reacts = [x \in {} |-> 0]
    /\ events = << >>
    /\ budget = [posts |-> 0, admin |-> 0, env |-> 0]
    /\ fin = NoRun
    /\ radds = [x \in {} |-> 0]
    /\ applied = storage
    /\ lk = IdleLink
    /\ hist = NoHist

\* The relay with small caches over a loaded index that does not change.
NextEvict == FanningOut \/ Following

SpecEvict == InitSmall /\ [][NextEvict]_vars

\* The step of task t, whichever its position allows.
Listening(t) ==
    \/ Dispatch(t)
    \/ OnMessage(t) \/ OnMessageSend(t)
    \/ OnEdit(t) \/ OnEditStep(t)
    \/ OnDelete(t) \/ OnDeleteStep(t)
    \/ OnReaction(t) \/ OnReactionStep(t)

\* The event loop runs every task that can run, and every awaited platform
\* call returns or raises.
Scheduling == \A t \in Tasks : WF_vars(Listening(t))

\* The relay under fair scheduling, with users who post, edit, delete and
\* react with one emoji.
NextLive ==
    \/ \E c \in Channels : UserPost(c)
    \/ \E m \in 1..MaxMsg : UserEdit(m)
    \/ \E m \in 1..MaxMsg : UserDelete(m)
    \/ \E m \in 1..MaxMsg : UserReact(m, SetMin(Emojis))
    \/ \E t \in Tasks : Listening(t)

SpecLive == InitSmall /\ [][NextLive]_vars /\ Scheduling

\* Loading the index while linker_link provisions the hook of a channel.
NextProvision == Reloading \/ Linking

SpecProvision == Init /\ [][NextProvision]_vars

====
